---- MODULE Spec2Model ----
(***************************************************************************)
(* Model of wolfsoftware.get_aws_regions (functions.py): one invocation of *)
(* get_region_list, from the call to its return or raise, including the    *)
(* thread pool that _fetch_region_descriptions opens.                      *)
(*                                                                         *)
(* Python values are modelled as follows.                                  *)
(*   - str: a TLA+ string; Python's `<` on str is StrLT on the code points *)
(*     given by CodePoints.                                                *)
(*   - Optional[x]: None is <<>>, a value v is <<v>>.                      *)
(*   - dict and list objects live in heaps (dicts, lists) and are referred *)
(*     to by index, so that aliasing and in-place mutation are visible.    *)
(*   - include_list / exclude_list: the code only ever evaluates           *)
(*     `name in the_list`, so a list is represented by its set of members. *)
(*   - a message (str built by an f-string) is the sequence of its pieces. *)
(***************************************************************************)
EXTENDS Integers, Sequences, FiniteSets, TLC

\* ---------------------------------------------------------------- bounds
\* Largest number of regions in one describe_regions response.
MaxRegions == 3
\* Worker threads of the pool (ThreadPoolExecutor's max_workers).
MaxWorkers == 2

\* ------------------------------------------------------- input universes
None == <<>>
Some(v) == <<v>>

\* Region codes the collaborators may know about.
Codes == {"eu", "us", "us2"}

\* ord() of the characters of each code: e=101 u=117 s=115 2=50.
CodePoints(c) ==
    CASE c = "eu"  -> <<101, 117>>
      [] c = "us"  -> <<117, 115>>
      [] c = "us2" -> <<117, 115, 50>>

Statuses == {"opt-in-not-required", "opted-in"}

\* Content of the parameter store, /aws/service/global-infrastructure/regions/<code>/longName.
mock_description(c) ==
    CASE c = "eu"  -> "EU West (Ireland)"
      [] c = "us"  -> "US East (N. Virginia)"
      [] c = "us2" -> "US West (N. California)"

\* str(e) of the errors the collaborators may raise.
ErrorTexts == {<<"Test Exception">>, <<>>}
\* Exception classes of the collaborators: the first is caught by the
\* (BotoCoreError, ClientError) clause, the second by `except Exception`.
ErrorKinds == {"ClientError", "Exception"}

\* ------------------------------------------------------ helper operators
Range(s) == {s[i] : i \in DOMAIN s}

\* Python's str.__lt__ on two code-point sequences: lexicographic, a proper
\* prefix is smaller.
RECURSIVE SeqLT(_, _)
SeqLT(a, b) ==
    IF b = <<>> THEN FALSE
    ELSE IF a = <<>> THEN TRUE
    ELSE IF a[1] # b[1] THEN a[1] < b[1]
    ELSE SeqLT(Tail(a), Tail(b))

StrLT(x, y) == SeqLT(CodePoints(x), CodePoints(y))

\* All sequences over S of length at most n.
RECURSIVE SeqsUpTo(_, _)
SeqsUpTo(S, n) ==
    IF n = 0 THEN {<<>>}
    ELSE LET shorter == SeqsUpTo(S, n - 1)
         IN  shorter \cup {Append(s, x) : s \in shorter, x \in S}

\* The message ends with the text.
EndsWith(msg, text) ==
    /\ Len(text) <= Len(msg)
    /\ SubSeq(msg, Len(msg) - Len(text) + 1, Len(msg)) = text

\* ------------------------------------------------------------- the state
VARIABLES
    pc,                \* position of the calling thread in get_region_list
    include_list,      \* argument: None or Some(set of codes)
    exclude_list,      \* argument: None or Some(set of codes)
    details,           \* argument
    ec2,               \* what describe_regions does when called
    dicts,             \* heap of dict objects (the region records)
    lists,             \* heap of list objects: sequences of dict references
    all_regions_list,  \* local of get_region_list: None or Some(list reference)
    filtered_regions,  \* local of get_region_list: None or Some(list reference)
    region_names,      \* argument of _fetch_region_descriptions
    futures,           \* the futures of the pool, in submission order
    yielded,           \* futures as_completed has already yielded
    descriptions,      \* local of _fetch_region_descriptions: code -> name
    exc,               \* None or Some(exception in flight / raised)
    result,            \* None or Some(value returned by get_region_list)
    calls              \* number of calls made to each collaborator so far

vars == <<pc, include_list, exclude_list, details, ec2, dicts, lists,
          all_regions_list, filtered_regions, region_names, futures, yielded,
          descriptions, exc, result, calls>>

args == <<include_list, exclude_list, details, ec2>>
heap == <<dicts, lists>>
pool == <<region_names, futures, yielded, descriptions>>

\* The regions of a describe_regions response: distinct region names (the
\* service lists a region once), each with a status and fields the package
\* does not keep.
Responses ==
    {[i \in DOMAIN s |->
          [RegionName |-> s[i][1], OptInStatus |-> s[i][2], Endpoint |-> "ec2"]] :
        s \in {t \in SeqsUpTo(Codes \X Statuses, MaxRegions) :
                  \A i, j \in DOMAIN t : i # j => t[i][1] # t[j][1]}}

\* Behaviours of ec2.describe_regions: a response, or an exception.
Ec2Behaviours ==
    {[raises |-> FALSE, Regions |-> r, kind |-> "", text |-> <<>>] : r \in Responses}
    \cup {[raises |-> TRUE, Regions |-> <<>>, kind |-> k, text |-> t] :
             k \in ErrorKinds, t \in ErrorTexts}

OptionalCodeLists == {None} \cup {Some(S) : S \in SUBSET Codes}

RegionListingError(message) == [type |-> "RegionListingError", msg |-> message]

Init ==
    /\ pc = "call"
    /\ include_list \in OptionalCodeLists
    /\ exclude_list \in OptionalCodeLists
    /\ details \in BOOLEAN
    /\ ec2 \in Ec2Behaviours
    /\ dicts = <<>>
    /\ lists = <<>>
    /\ all_regions_list = None
    /\ filtered_regions = None
    /\ region_names = <<>>
    /\ futures = <<>>
    /\ yielded = {}
    /\ descriptions = <<>>
    /\ exc = None
    /\ result = None
    /\ calls = [describe_regions |-> 0, get_parameter |-> [c \in Codes |-> 0]]

\* ------------------------------------------------------ _fetch_all_regions
\* The list comprehension that keeps RegionName and OptInStatus only.
KeepNameAndStatus(regions) ==
    [i \in DOMAIN regions |->
        [RegionName |-> regions[i].RegionName, OptInStatus |-> regions[i].OptInStatus]]

\* The exception _fetch_all_regions raises for an error of the collaborator.
FetchAllRegionsError(kind, text) ==
    IF kind = "ClientError"
    THEN RegionListingError(<<"An error occurred while listing regions: ">> \o text)
    ELSE RegionListingError(<<"An unexpected error occurred: ">> \o text)

\* Faulty variant: the wrapper drops the text of the exception it wraps.
RetrievingRegionsError_NoCause(e) ==
    RegionListingError(<<"An error occurred while retrieving regions: ">>)

\* The wrapper of get_region_list around an exception of _fetch_all_regions.
RetrievingRegionsError(e) ==
    RegionListingError(<<"An error occurred while retrieving regions: ">> \o e.msg)

\* ec2.describe_regions(...) is called.
DescribeRegionsCalled(cs) == [cs EXCEPT !.describe_regions = @ + 1]

\* get_region_list, the try block: all_regions_list = _fetch_all_regions(...)
FetchAllRegions ==
    /\ pc = "call"
    /\ IF ec2.raises
       THEN /\ exc' = Some(RetrievingRegionsError(FetchAllRegionsError(ec2.kind, ec2.text)))
            /\ pc' = "raised"
            /\ UNCHANGED <<heap, all_regions_list>>
       ELSE /\ dicts' = KeepNameAndStatus(ec2.Regions)
            /\ lists' = <<[i \in DOMAIN ec2.Regions |-> i]>>
            /\ all_regions_list' = Some(1)
            /\ pc' = "fetched"
            /\ exc' = exc
    /\ calls' = DescribeRegionsCalled(calls)
    /\ UNCHANGED <<args, filtered_regions, pool, result>>

\* --------------------------------------------------- _apply_region_filters
\* Faulty variant: the include filter keeps every region.
KeepIncluded_KeepsAll(ds, regions, members) == regions

\* [region for region in regions if region['RegionName'] in include_list]
KeepIncluded(ds, regions, members) ==
    SelectSeq(regions, LAMBDA d : ds[d].RegionName \in members)

\* Faulty variant: the exclude filter keeps the excluded regions instead.
DropExcluded_Inverted(ds, regions, members) ==
    SelectSeq(regions, LAMBDA d : ds[d].RegionName \in members)

\* [region for region in regions if region['RegionName'] not in exclude_list]
DropExcluded(ds, regions, members) ==
    SelectSeq(regions, LAMBDA d : ds[d].RegionName \notin members)

\* Insert a reference into a list sorted by RegionName, behind the entries
\* whose key is not greater (list.sort is stable).
RECURSIVE InsertByRegionName(_, _, _)
InsertByRegionName(ds, sorted, d) ==
    IF sorted = <<>> THEN <<d>>
    ELSE IF StrLT(ds[d].RegionName, ds[sorted[1]].RegionName)
         THEN <<d>> \o sorted
         ELSE <<sorted[1]>> \o InsertByRegionName(ds, Tail(sorted), d)

\* Faulty variant: the sort is left out.
SortByRegionName_Missing(ds, regions) == regions

\* regions.sort(key=lambda x: x['RegionName'])
RECURSIVE SortByRegionName(_, _)
SortByRegionName(ds, regions) ==
    IF regions = <<>> THEN <<>>
    ELSE InsertByRegionName(ds,
             SortByRegionName(ds, SubSeq(regions, 1, Len(regions) - 1)),
             regions[Len(regions)])

\* Faulty variant: the filters are tested for truth (`if include_list:`), so
\* an empty list filters nothing.
ApplyRegionFilters_Truthy(ds, ls, regions, include, exclude) ==
    LET inc == include # None /\ include[1] # {}
        excl == exclude # None /\ exclude[1] # {}
        ls1 == IF inc
               THEN Append(ls, KeepIncluded(ds, ls[regions], include[1]))
               ELSE ls
        r1  == IF inc THEN Len(ls1) ELSE regions
        ls2 == IF excl
               THEN Append(ls1, DropExcluded(ds, ls1[r1], exclude[1]))
               ELSE ls1
        r2  == IF excl THEN Len(ls2) ELSE r1
    IN  [lists |-> [ls2 EXCEPT ![r2] = SortByRegionName(ds, ls2[r2])],
         ret   |-> r2]

\* _apply_region_filters(regions, include_list, exclude_list) on the heap of
\* lists ls: each comprehension binds `regions` to a new list object, and the
\* sort is in place on whatever object `regions` is bound to at that point.
\* Gives the heap after the call and the reference returned.
ApplyRegionFilters(ds, ls, regions, include, exclude) ==
    LET ls1 == IF include # None
               THEN Append(ls, KeepIncluded(ds, ls[regions], include[1]))
               ELSE ls
        r1  == IF include # None THEN Len(ls1) ELSE regions
        ls2 == IF exclude # None
               THEN Append(ls1, DropExcluded(ds, ls1[r1], exclude[1]))
               ELSE ls1
        r2  == IF exclude # None THEN Len(ls2) ELSE r1
    IN  [lists |-> [ls2 EXCEPT ![r2] = SortByRegionName(ds, ls2[r2])],
         ret   |-> r2]

\* get_region_list: filtered_regions = _apply_region_filters(all_regions_list, ...)
ApplyFilters ==
    /\ pc = "fetched"
    /\ LET out == ApplyRegionFilters(dicts, lists, all_regions_list[1],
                                     include_list, exclude_list)
       IN  /\ lists' = out.lists
           /\ filtered_regions' = Some(out.ret)
    /\ pc' = "filtered"
    /\ UNCHANGED <<calls, args, dicts, all_regions_list, pool, exc, result>>

\* Faulty variant: the names are taken from every fetched region, not from
\* the filtered list.
RegionNamesOf_Unfiltered(ds, regions) == [i \in DOMAIN ds |-> ds[i].RegionName]

\* [region['RegionName'] for region in filtered_regions]
RegionNamesOf(ds, regions) == [i \in DOMAIN regions |-> ds[regions[i]].RegionName]

\* get_region_list with details false: return the names.
ReturnNames ==
    /\ pc = "filtered"
    /\ ~details
    /\ result' = Some(RegionNamesOf(dicts, lists[filtered_regions[1]]))
    /\ pc' = "returned"
    /\ UNCHANGED <<calls, args, heap, all_regions_list, filtered_regions, pool, exc>>

\* ------------------------------------------------ _fetch_region_description
\* str(e) of the errors ssm.get_parameter may raise.
SsmErrorTexts == {<<"ParameterNotFound">>}

\* The dict _fetch_region_description returns: {region_name: value}.
FetchRegionDescription(region_name) == region_name :> mock_description(region_name)

\* The exception _fetch_region_description raises for an error of the collaborator.
FetchRegionDescriptionError(region_name, kind, text) ==
    IF kind = "ClientError"
    THEN RegionListingError(
             <<"An error occurred while retrieving geographical location for region ",
               region_name, ": ">> \o text)
    ELSE RegionListingError(<<"An unexpected error occurred: ">> \o text)

\* ----------------------------------------------- _fetch_region_descriptions
Future(region) ==
    [state |-> "PENDING", region |-> region, result |-> <<>>, exception |-> None]

AllSubmitted == Len(futures) = Len(region_names)

Running(fs) == {i \in DOMAIN fs : fs[i].state = "RUNNING"}
Pending(fs) == {i \in DOMAIN fs : fs[i].state = "PENDING"}

\* Faulty variant: the pool is shut down without waiting for its workers.
PoolJoined_NoWait(fs) == TRUE

\* The exit of `with ThreadPoolExecutor() as executor` is shutdown(wait=True):
\* it returns once the workers have run every submitted work item.
PoolJoined(fs) == \A i \in DOMAIN fs : fs[i].state = "FINISHED"

\* Faulty variant: the result replaces the mapping instead of being merged.
Update_Replace(d, r) == r

\* descriptions.update(result)
Update(d, r) == r @@ d

\* get_region_list with details true: region_names is built and
\* _fetch_region_descriptions opens the pool.
EnterPool ==
    /\ pc = "filtered"
    /\ details
    /\ region_names' = RegionNamesOf(dicts, lists[filtered_regions[1]])
    /\ futures' = <<>>
    /\ yielded' = {}
    /\ descriptions' = <<>>
    /\ pc' = "with_executor"
    /\ UNCHANGED <<calls, args, heap, all_regions_list, filtered_regions, exc, result>>

\* executor.submit(_fetch_region_description, region, profile_name), one per
\* region, in the order of region_names.
Submit ==
    /\ pc = "with_executor"
    /\ ~AllSubmitted
    /\ futures' = Append(futures, Future(region_names[Len(futures) + 1]))
    /\ UNCHANGED <<calls, pc, args, heap, all_regions_list, filtered_regions,
                   region_names, yielded, descriptions, exc, result>>

\* A worker takes the oldest queued work item.
TaskStart(i) ==
    /\ i \in Pending(futures)
    /\ \A j \in Pending(futures) : i <= j
    /\ Cardinality(Running(futures)) < MaxWorkers
    /\ futures' = [futures EXCEPT ![i].state = "RUNNING"]
    /\ UNCHANGED <<calls, pc, args, heap, all_regions_list, filtered_regions,
                   region_names, yielded, descriptions, exc, result>>

\* ssm.get_parameter(Name=...) is called for the region.
GetParameterCalled(cs, region_name) ==
    [cs EXCEPT !.get_parameter[region_name] = @ + 1]

\* _fetch_region_description calls get_parameter and returns in its worker.
TaskReturn(i) ==
    /\ i \in Running(futures)
    /\ futures' = [futures EXCEPT ![i].state = "FINISHED",
                                  ![i].result = FetchRegionDescription(futures[i].region)]
    /\ calls' = GetParameterCalled(calls, futures[i].region)
    /\ UNCHANGED <<pc, args, heap, all_regions_list, filtered_regions,
                   region_names, yielded, descriptions, exc, result>>

\* Faulty variant: a task whose call failed is queued again.
TaskRaise_Retry(i, kind, text) ==
    /\ i \in Running(futures)
    /\ futures' = [futures EXCEPT ![i].state = "PENDING"]
    /\ calls' = GetParameterCalled(calls, futures[i].region)
    /\ UNCHANGED <<pc, args, heap, all_regions_list, filtered_regions,
                   region_names, yielded, descriptions, exc, result>>

\* _fetch_region_description calls get_parameter and raises in its worker.
TaskRaise(i, kind, text) ==
    /\ i \in Running(futures)
    /\ futures' = [futures EXCEPT
                      ![i].state = "FINISHED",
                      ![i].exception =
                          Some(FetchRegionDescriptionError(futures[i].region, kind, text))]
    /\ calls' = GetParameterCalled(calls, futures[i].region)
    /\ UNCHANGED <<pc, args, heap, all_regions_list, filtered_regions,
                   region_names, yielded, descriptions, exc, result>>

\* The exception the loop raises for a failed future.
FetchingLocationsError(region, e) ==
    RegionListingError(
        <<"An unexpected error occurred while fetching geographical locations for ",
          region, ": ">> \o e.msg)

\* Faulty variant: the loop swallows the exception of a failed task.
ResultRaises_Swallowed(future) == FALSE

\* future.result() raises the exception of a failed task, which the except
\* clause of the loop catches.
ResultRaises(future) == future.exception # None

\* One iteration of `for future in as_completed(future_to_region)`: a finished
\* future not yet seen is yielded; its result is merged or its error re-raised.
AsCompleted(i) ==
    /\ pc = "with_executor"
    /\ AllSubmitted
    /\ i \in DOMAIN futures \ yielded
    /\ futures[i].state = "FINISHED"
    /\ yielded' = yielded \cup {i}
    /\ IF ResultRaises(futures[i])
       THEN /\ exc' = Some(FetchingLocationsError(futures[i].region,
                                                  futures[i].exception[1]))
            /\ pc' = "exit_raise"
            /\ UNCHANGED descriptions
       ELSE /\ descriptions' = Update(descriptions, futures[i].result)
            /\ UNCHANGED <<pc, exc>>
    /\ UNCHANGED <<calls, args, heap, all_regions_list, filtered_regions, region_names,
                   futures, result>>

\* The loop is exhausted, the with block is left, descriptions is returned.
ReturnDescriptions ==
    /\ pc = "with_executor"
    /\ AllSubmitted
    /\ yielded = DOMAIN futures
    /\ PoolJoined(futures)
    /\ pc' = "resolved"
    /\ UNCHANGED <<calls, args, heap, all_regions_list, filtered_regions, pool, exc, result>>

\* The exception leaves the with block and _fetch_region_descriptions, and
\* get_region_list lets it through.
RaiseFromPool ==
    /\ pc = "exit_raise"
    /\ PoolJoined(futures)
    /\ pc' = "raised"
    /\ UNCHANGED <<calls, args, heap, all_regions_list, filtered_regions, pool, exc, result>>

\* ---------------------------------------------------------- get_region_list
\* Faulty variant: the lookup always gives the default.
Get_AlwaysDefault(d, key, default) == default

\* region_descriptions.get(name, "Unknown")
Get(d, key, default) == IF key \in DOMAIN d THEN d[key] ELSE default

\* region['GeographicalLocation'] = value
SetItem(region, key, value) == (key :> value) @@ region

\* The loop that attaches GeographicalLocation to every dict of regions.
AttachLocations(ds, regions, region_descriptions) ==
    [d \in DOMAIN ds |->
        IF d \in Range(regions)
        THEN SetItem(ds[d], "GeographicalLocation",
                     Get(region_descriptions, ds[d].RegionName, "Unknown"))
        ELSE ds[d]]

\* get_region_list with details true, after _fetch_region_descriptions
\* returned: attach the locations and return filtered_regions.
ReturnDetails ==
    /\ pc = "resolved"
    /\ dicts' = AttachLocations(dicts, lists[filtered_regions[1]], descriptions)
    /\ result' = Some([i \in DOMAIN lists[filtered_regions[1]] |->
                          dicts'[lists[filtered_regions[1]][i]]])
    /\ pc' = "returned"
    /\ UNCHANGED <<calls, args, lists, all_regions_list, filtered_regions, pool, exc>>

Next ==
    \/ FetchAllRegions
    \/ ApplyFilters
    \/ ReturnNames
    \/ EnterPool
    \/ Submit
    \/ \E i \in DOMAIN futures : TaskStart(i)
    \/ \E i \in DOMAIN futures : TaskReturn(i)
    \/ \E i \in DOMAIN futures, kind \in ErrorKinds, text \in SsmErrorTexts :
           TaskRaise(i, kind, text)
    \/ \E i \in DOMAIN futures : AsCompleted(i)
    \/ ReturnDescriptions
    \/ RaiseFromPool
    \/ ReturnDetails

Spec == Init /\ [][Next]_vars

\* ------------------------------------------------------------ properties
\* What the properties read off the state.
FetchedCodes == {ec2.Regions[i].RegionName : i \in DOMAIN ec2.Regions}

\* The codes of the list _apply_region_filters returned, in list order.
FilteredCodes ==
    [i \in DOMAIN lists[filtered_regions[1]] |->
        dicts[lists[filtered_regions[1]][i]].RegionName]

\* The codes of the value get_region_list returned, in list order.
ResultCodes ==
    [i \in DOMAIN result[1] |->
        IF details THEN result[1][i].RegionName ELSE result[1][i]]

Ascending(codes) ==
    \A i, j \in DOMAIN codes : i < j => ~StrLT(codes[j], codes[i])

NoDuplicates(codes) ==
    \A i, j \in DOMAIN codes : i # j => codes[i] # codes[j]

\* C1: with a non-null include list I, the codes _apply_region_filters
\* returns, and the codes get_region_list returns, all lie in I and in the
\* fetched region set.
C1_IncludeSubset ==
    include_list # None =>
        /\ filtered_regions # None =>
               Range(FilteredCodes) \subseteq (include_list[1] \cap FetchedCodes)
        /\ result # None =>
               Range(ResultCodes) \subseteq (include_list[1] \cap FetchedCodes)

\* An include-only call returned some codes, dropped a fetched code that is
\* not in I, and I names a code that was not fetched.
C1_Witness ==
    /\ pc = "returned"
    /\ include_list # None
    /\ exclude_list = None
    /\ ResultCodes # <<>>
    /\ FetchedCodes \ include_list[1] # {}
    /\ include_list[1] \ FetchedCodes # {}

\* C2: with a non-null exclude list E, no member of E is among the codes
\* _apply_region_filters returns or get_region_list returns, with details
\* or without.
C2_ExcludeDisjoint ==
    exclude_list # None =>
        /\ filtered_regions # None => Range(FilteredCodes) \cap exclude_list[1] = {}
        /\ result # None => Range(ResultCodes) \cap exclude_list[1] = {}

\* An exclude-only call with details returned some records and dropped a
\* fetched code that is in E.
C2_Witness ==
    /\ pc = "returned"
    /\ details
    /\ include_list = None
    /\ exclude_list # None
    /\ ResultCodes # <<>>
    /\ FetchedCodes \cap exclude_list[1] # {}

\* C3: the list _apply_region_filters returns is in ascending order of region
\* code, whatever the filters, and so is the value get_region_list returns,
\* as a list of codes and as a list of records.
C3_SortedAscending ==
    /\ filtered_regions # None => Ascending(FilteredCodes)
    /\ result # None => Ascending(ResultCodes)

\* Three regions were fetched in an order that is not ascending and all
\* three were returned.
C3_Witness ==
    /\ pc = "returned"
    /\ Len(ec2.Regions) = 3
    /\ StrLT(ec2.Regions[3].RegionName, ec2.Regions[1].RegionName)
    /\ Len(ResultCodes) = 3

\* C4: with details false get_region_list returns the codes of the list
\* _apply_region_filters returned, in the same order, and no code twice.
C4_NamesOfFiltered ==
    (pc = "returned" /\ ~details) =>
        /\ Len(result[1]) = Len(lists[filtered_regions[1]])
        /\ \A i \in DOMAIN result[1] :
               result[1][i] = dicts[lists[filtered_regions[1]][i]].RegionName
        /\ NoDuplicates(result[1])

\* A call without details returned two codes out of three fetched.
C4_Witness ==
    /\ pc = "returned"
    /\ ~details
    /\ Len(result[1]) = 2
    /\ Len(ec2.Regions) = 3

\* The futures whose task returned / raised.
Succeeded == {i \in DOMAIN futures :
                 futures[i].state = "FINISHED" /\ futures[i].exception = None}
Failed == {i \in DOMAIN futures :
              futures[i].state = "FINISHED" /\ futures[i].exception # None}

\* get_region_list or _fetch_region_descriptions is over.
Left == pc \in {"resolved", "returned", "raised"}

\* C5: with details true get_region_list returns one record per filtered
\* region, with the code and the opt-in status as fetched and with a
\* GeographicalLocation that is the name the resolver returned for that code;
\* "Unknown" is attached only for a code the resolution map lacks.
C5_DetailsRecords ==
    (pc = "returned" /\ details) =>
        /\ ResultCodes = FilteredCodes
        /\ \A i \in DOMAIN result[1] :
               LET r == result[1][i]
               IN  /\ \E j \in DOMAIN ec2.Regions :
                          /\ ec2.Regions[j].RegionName = r.RegionName
                          /\ ec2.Regions[j].OptInStatus = r.OptInStatus
                   /\ DOMAIN r = {"RegionName", "OptInStatus", "GeographicalLocation"}
                   /\ \E f \in Succeeded :
                          /\ futures[f].region = r.RegionName
                          /\ futures[f].result[r.RegionName] = r.GeographicalLocation
                   /\ r.GeographicalLocation = "Unknown" =>
                          r.RegionName \notin DOMAIN descriptions

\* A call with details returned the records of two regions with different
\* opt-in statuses.
C5_Witness ==
    /\ pc = "returned"
    /\ details
    /\ Len(result[1]) = 2
    /\ result[1][1].OptInStatus # result[1][2].OptInStatus

\* C6: when describe_regions raises, get_region_list raises
\* RegionListingError whatever its parameters; the message is the outer
\* prefix, the prefix of _fetch_all_regions and then the original text, and
\* nothing is returned.
C6_EnumerationError ==
    (ec2.raises /\ pc # "call") =>
        /\ pc = "raised"
        /\ result = None
        /\ exc # None
        /\ exc[1].type = "RegionListingError"
        /\ EndsWith(exc[1].msg, ec2.text)
        /\ Len(exc[1].msg) = Len(ec2.text) + 2
        /\ exc[1].msg[1] = "An error occurred while retrieving regions: "
        /\ exc[1].msg[2] \in {"An error occurred while listing regions: ",
                              "An unexpected error occurred: "}

\* describe_regions raised Exception("Test Exception") in a call with
\* details and both filters, and get_region_list has raised.
C6_Witness ==
    /\ pc = "raised"
    /\ ec2.raises
    /\ ec2.kind = "Exception"
    /\ ec2.text = <<"Test Exception">>
    /\ details
    /\ include_list # None
    /\ exclude_list # None

\* C7: _fetch_region_descriptions returns a mapping with every requested code
\* and only when no task failed; once a task has failed, the call ends in
\* RegionListingError, get_region_list returns nothing and no record carries
\* a GeographicalLocation.
C7_AllOrNothing ==
    /\ pc \in {"resolved", "returned"} /\ details =>
           /\ DOMAIN descriptions = Range(region_names)
           /\ Failed = {}
    /\ (Left /\ Failed # {}) =>
           /\ pc = "raised"
           /\ exc # None
           /\ exc[1].type = "RegionListingError"
           /\ result = None
           /\ \A d \in DOMAIN dicts : "GeographicalLocation" \notin DOMAIN dicts[d]

\* The call raised after one task failed while the name of another region
\* was already merged into the mapping.
C7_Witness ==
    /\ pc = "raised"
    /\ Failed # {}
    /\ DOMAIN descriptions # {}

\* C9: when _fetch_region_descriptions has returned or raised, a future was
\* submitted for every region name and every future is finished.
C9_PoolJoined ==
    (Left /\ ~ec2.raises /\ details) =>
        /\ Len(futures) = Len(region_names)
        /\ \A i \in DOMAIN futures : futures[i].state = "FINISHED"

\* The call raised for a failed task, and a task the loop never got to see
\* has run to its end all the same.
C9_Witness ==
    /\ pc = "raised"
    /\ Failed # {}
    /\ Succeeded \ yielded # {}

\* The codes the filters let through, from the arguments and the response.
ExpectedCodes ==
    {c \in FetchedCodes :
        /\ include_list = None \/ c \in include_list[1]
        /\ exclude_list = None \/ c \notin exclude_list[1]}

\* The record get_region_list returns for a code when every lookup succeeds.
ExpectedRecord(c) ==
    LET j == CHOOSE j \in DOMAIN ec2.Regions : ec2.Regions[j].RegionName = c
    IN  [RegionName |-> c,
         OptInStatus |-> ec2.Regions[j].OptInStatus,
         GeographicalLocation |-> mock_description(c)]

\* C10: when every task succeeded, the mapping and the records returned are
\* determined by the arguments and the collaborators' answers alone, whatever
\* order the tasks ran, finished and were merged in.
C10_OrderIrrelevant ==
    /\ (pc = "resolved") =>
           /\ DOMAIN descriptions = Range(region_names)
           /\ \A c \in DOMAIN descriptions : descriptions[c] = mock_description(c)
    /\ (pc = "returned" /\ details) =>
           /\ Len(result[1]) = Cardinality(ExpectedCodes)
           /\ \A i \in DOMAIN result[1] :
                  /\ result[1][i].RegionName \in ExpectedCodes
                  /\ result[1][i] = ExpectedRecord(result[1][i].RegionName)
           /\ \A i, j \in DOMAIN result[1] :
                  i < j => StrLT(result[1][i].RegionName, result[1][j].RegionName)

\* Three tasks succeeded and the records of three regions were returned.
C10_Witness ==
    /\ pc = "returned"
    /\ details
    /\ Cardinality(Succeeded) = 3
    /\ Len(result[1]) = 3

\* C8: _apply_region_filters leaves the list object it was given as it was.
C8_InputListUnchanged ==
    [][pc = "fetched" =>
          lists'[all_regions_list[1]] = lists[all_regions_list[1]]]_vars

\* C11: the codes _apply_region_filters returns are exactly the fetched codes
\* that are in the include list, if there is one, and not in the exclude
\* list, if there is one; an empty include list gives an empty list, no
\* include list filters nothing.
C11_FiltersCompose ==
    filtered_regions # None =>
        /\ Range(FilteredCodes) =
               {c \in FetchedCodes :
                   /\ include_list # None => c \in include_list[1]
                   /\ exclude_list # None => c \notin exclude_list[1]}
        /\ Len(FilteredCodes) = Cardinality(Range(FilteredCodes))
        /\ include_list = Some({}) => FilteredCodes = <<>>
        /\ (include_list = None /\ exclude_list = None) =>
               Range(FilteredCodes) = FetchedCodes

\* Both filters were given and each dropped a fetched code the other let
\* through.
C11_Witness ==
    /\ filtered_regions # None
    /\ include_list # None
    /\ exclude_list # None
    /\ FilteredCodes # <<>>
    /\ (FetchedCodes \ include_list[1]) \ exclude_list[1] # {}
    /\ (FetchedCodes \cap include_list[1]) \cap exclude_list[1] # {}

\* C12: in one get_region_list invocation describe_regions is called once
\* and never again; get_parameter is called at most once for a code, only
\* for a code the filters let through, and not at all when details is false
\* or describe_regions raised; a call that failed is not made a second time.
C12_NoRepeatedCalls ==
    /\ calls.describe_regions = IF pc = "call" THEN 0 ELSE 1
    /\ \A c \in Codes :
           /\ calls.get_parameter[c] <= 1
           /\ calls.get_parameter[c] = 1 =>
                  /\ details
                  /\ ~ec2.raises
                  /\ c \in ExpectedCodes
    /\ \A i \in Failed : calls.get_parameter[futures[i].region] = 1

\* The call raised after one lookup failed and another succeeded, while a
\* fetched region the filters dropped was never looked up.
C12_Witness ==
    /\ pc = "raised"
    /\ Failed # {}
    /\ Succeeded # {}
    /\ calls.describe_regions = 1
    /\ \E c \in FetchedCodes : calls.get_parameter[c] = 0

====
